---- MODULE Spec2Model ----
(***************************************************************************)
(* Forex simulation tool (src/app.py): the two core functions              *)
(* forex_simulation and plot_forex_graph and the Streamlit script that     *)
(* calls them from the "Run Simulation" button.                            *)
(*                                                                         *)
(* All numbers of the program are Python floats (IEEE-754 binary64) or     *)
(* Python ints converted to float by "/" and "*".  The model carries them  *)
(* bit for bit: a float is a sign, a 53-bit significand and an exponent,   *)
(* and every operation rounds to nearest, ties to even, as the hardware    *)
(* does.  Significands do not fit TLC's 32-bit integers, so they are kept  *)
(* as little-endian sequences of base-2^14 limbs.                          *)
(***************************************************************************)
EXTENDS Integers, Sequences, FiniteSets, TLC

(***************************************************************************)
(* With(x, LAMBDA v : e) is LET v == x IN e with x computed once: TLC      *)
(* passes the arguments of an operator, and the definitions of a LET,      *)
(* unevaluated, and computes them again at every use.  Every operator      *)
(* below that uses an argument more than once takes it through With.       *)
(***************************************************************************)
With(x, F(_)) == CHOOSE r \in {F(v) : v \in {x}} : TRUE

With2(x, y, F(_, _)) == CHOOSE r \in {F(v, w) : v \in {x}, w \in {y}} : TRUE

(***************************************************************************)
(* Natural numbers of any size: <<l1, ..., ln>> is l1 + l2*Base + ...,     *)
(* every limb in 0..Base-1, the top limb nonzero, zero the empty sequence. *)
(***************************************************************************)
Base == 2^14

\* a without its high zero limbs
RECURSIVE BigTrim(_)
BigTrim(a) ==
    With(a, LAMBDA v :
        IF v = <<>> THEN v
        ELSE IF v[Len(v)] # 0 THEN v
        ELSE BigTrim(SubSeq(v, 1, Len(v) - 1)))

RECURSIVE BigOfInt(_)
BigOfInt(n) ==
    IF n = 0 THEN <<>> ELSE <<n % Base>> \o BigOfInt(n \div Base)

Limb(a, i) == IF i <= Len(a) THEN a[i] ELSE 0

\* the limbs i, i+1, ... of a + b + c, for sequences a, b and a carry c
RECURSIVE BigAddFrom(_, _, _, _)
BigAddFrom(a, b, i, c) ==
    IF i > Len(a) /\ i > Len(b)
    THEN (IF c = 0 THEN <<>> ELSE <<c>>)
    ELSE LET s == Limb(a, i) + Limb(b, i) + c
         IN  <<s % Base>> \o BigAddFrom(a, b, i + 1, s \div Base)

BigAdd(a, b) == With2(a, b, LAMBDA v, w : BigTrim(BigAddFrom(v, w, 1, 0)))

RECURSIVE BigSubFrom(_, _, _, _)
BigSubFrom(a, b, i, br) ==
    IF i > Len(a) THEN <<>>
    ELSE LET d == a[i] - Limb(b, i) - br
         IN  <<IF d < 0 THEN d + Base ELSE d>>
                 \o BigSubFrom(a, b, i + 1, IF d < 0 THEN 1 ELSE 0)

\* a - b for a >= b
BigSub(a, b) == With2(a, b, LAMBDA v, w : BigTrim(BigSubFrom(v, w, 1, 0)))

RECURSIVE BigCmpFrom(_, _, _)
BigCmpFrom(a, b, i) ==
    IF i = 0 THEN 0
    ELSE IF a[i] > b[i] THEN 1
    ELSE IF a[i] < b[i] THEN -1
    ELSE BigCmpFrom(a, b, i - 1)

\* -1, 0 or 1 as a < b, a = b or a > b
BigCmp(a, b) ==
    With2(a, b, LAMBDA v, w :
        IF Len(v) > Len(w) THEN 1
        ELSE IF Len(v) < Len(w) THEN -1
        ELSE BigCmpFrom(v, w, Len(v)))

\* the limbs i, i+1, ... of a * k + c, for a sequence a and 0 <= k <= Base
RECURSIVE BigMulSmallFrom(_, _, _, _)
BigMulSmallFrom(a, k, i, c) ==
    IF i > Len(a) THEN BigOfInt(c)
    ELSE LET p == a[i] * k + c
         IN  <<p % Base>> \o BigMulSmallFrom(a, k, i + 1, p \div Base)

BigMulSmall(a, k) ==
    With2(a, k, LAMBDA v, w : BigTrim(BigMulSmallFrom(v, w, 1, 0)))

\* a * (b[j] + b[j+1] * Base + ...), untrimmed
RECURSIVE BigMulFrom(_, _, _)
BigMulFrom(a, b, j) ==
    IF j > Len(b) THEN <<>>
    ELSE With2(BigMulSmallFrom(a, b[j], 1, 0), <<0>> \o BigMulFrom(a, b, j + 1),
               LAMBDA v, w : BigAddFrom(v, w, 1, 0))

BigMul(a, b) == With2(a, b, LAMBDA v, w : BigTrim(BigMulFrom(v, w, 1)))

Zeros(n) == [i \in 1..n |-> 0]

\* a * 2^k
BigShl(a, k) ==
    With2(a, k, LAMBDA v, w :
        IF v = <<>> THEN <<>>
        ELSE Zeros(w \div 14) \o BigMulSmall(v, 2^(w % 14)))

\* floor(a / 2^k)
BigShr(a, k) ==
    With2(a, k, LAMBDA v, w :
        With2(IF w \div 14 >= Len(v) THEN <<>>
              ELSE SubSeq(v, (w \div 14) + 1, Len(v)),
              2^(w % 14),
              LAMBDA t, r :
                BigTrim([i \in 1..Len(t) |->
                    (t[i] \div r) + (Limb(t, i + 1) % r) * (Base \div r)])))

RECURSIVE IntBitLen(_)
IntBitLen(n) == IF n = 0 THEN 0 ELSE 1 + IntBitLen(n \div 2)

\* the number of bits of a: 0 for zero, else floor(log2(a)) + 1
BigBitLen(a) ==
    With(a, LAMBDA v :
        IF v = <<>> THEN 0 ELSE 14 * (Len(v) - 1) + IntBitLen(v[Len(v)]))

BigIsOdd(a) == With(a, LAMBDA v : v # <<>> /\ v[1] % 2 = 1)

\* floor(r / d) for r < d * Base and d's top limb at least Base / 2: the
\* estimate from the top limbs is at most 2 too large (Knuth, algorithm D)
BigQuoDigit(r, d) ==
    With(((Limb(r, Len(d) + 1) * Base + Limb(r, Len(d))) \div d[Len(d)]),
         LAMBDA est :
    With(IF est > Base - 1 THEN Base - 1 ELSE est, LAMBDA q0 :
    With(BigMulSmall(d, q0), LAMBDA p0 :
        IF BigCmp(p0, r) <= 0 THEN q0
        ELSE IF BigCmp(BigSub(p0, d), r) <= 0 THEN q0 - 1
        ELSE q0 - 2)))

\* long division of the limbs a[i], ..., a[1] with the remainder rem so far:
\* <<quotient limbs, remainder>>
RECURSIVE BigDivFrom(_, _, _, _)
BigDivFrom(a, d, i, rem) ==
    IF i = 0 THEN <<<<>>, rem>>
    ELSE With(BigTrim(<<a[i]>> \o rem), LAMBDA r :
         With(BigQuoDigit(r, d), LAMBDA qd :
         With(BigDivFrom(a, d, i - 1, BigSub(r, BigMulSmall(d, qd))),
              LAMBDA rest : <<Append(rest[1], qd), rest[2]>>)))

\* <<floor(a / d), a mod d>> for d # 0
BigDivMod(a, d) ==
    With2(a, d, LAMBDA v, w :
        With(14 - IntBitLen(w[Len(w)]), LAMBDA s :
        With2(BigShl(v, s), BigShl(w, s), LAMBDA an, dn :
        With(BigDivFrom(an, dn, Len(an), <<>>), LAMBDA res :
            <<BigTrim(res[1]), BigShr(res[2], s)>>))))

(***************************************************************************)
(* Dyadic numbers s * m * 2^e, exact: s in {-1, 0, 1}, m a big natural     *)
(* (empty exactly when s = 0).  A float is a dyadic number whose m has     *)
(* exactly 53 bits, or zero.                                               *)
(***************************************************************************)
Dy(s, m, e) ==
    With2(s, m, LAMBDA v, w :
        IF v = 0 \/ w = <<>> THEN [s |-> 0, m |-> <<>>, e |-> 0]
        ELSE [s |-> v, m |-> w, e |-> e])

DyZero == [s |-> 0, m |-> <<>>, e |-> 0]

DyInt(n) ==
    With(n, LAMBDA v :
        Dy(IF v < 0 THEN -1 ELSE 1, BigOfInt(IF v < 0 THEN -v ELSE v), 0))

DyNeg(x) == With(x, LAMBDA v : Dy(-v.s, v.m, v.e))

DyAbs(x) == With(x, LAMBDA v : Dy(v.s * v.s, v.m, v.e))

DyMul(x, y) ==
    With2(x, y, LAMBDA v, w : Dy(v.s * w.s, BigMul(v.m, w.m), v.e + w.e))

\* x * 2^k
DyScale(x, k) == With(x, LAMBDA v : Dy(v.s, v.m, v.e + k))

DyAdd(x, y) ==
    With2(x, y, LAMBDA v, w :
        IF v.s = 0 THEN w
        ELSE IF w.s = 0 THEN v
        ELSE With(IF v.e < w.e THEN v.e ELSE w.e, LAMBDA e :
             With2(BigShl(v.m, v.e - e), BigShl(w.m, w.e - e), LAMBDA mv, mw :
             With(BigCmp(mv, mw), LAMBDA c :
                IF v.s = w.s THEN Dy(v.s, BigAdd(mv, mw), e)
                ELSE IF c = 0 THEN DyZero
                ELSE IF c > 0 THEN Dy(v.s, BigSub(mv, mw), e)
                ELSE Dy(w.s, BigSub(mw, mv), e)))))

DySub(x, y) == DyAdd(x, DyNeg(y))

\* -1, 0 or 1 as x < y, x = y or x > y
DyCmp(x, y) == DySub(x, y).s

DyLt(x, y) == DyCmp(x, y) < 0
DyLe(x, y) == DyCmp(x, y) <= 0
DyGt(x, y) == DyCmp(x, y) > 0
DyEq(x, y) == DyCmp(x, y) = 0

(***************************************************************************)
(* Rounding to binary64: the nearest number with a 53-bit significand,     *)
(* ties to the even significand.  The exponent range of binary64 is not    *)
(* modelled: the inputs of the model stay far from overflow and underflow, *)
(* and -0.0 is not told from 0.0.                                          *)
(***************************************************************************)
FRound(x) ==
    With(x, LAMBDA v :
        IF v.s = 0 THEN DyZero
        ELSE With(BigBitLen(v.m), LAMBDA n :
            IF n <= 53 THEN Dy(v.s, BigShl(v.m, 53 - n), v.e - (53 - n))
            ELSE \* drop d bits: q2 keeps one more than the result, the round bit
                 With2(n - 53, BigShr(v.m, n - 54), LAMBDA d, q2 :
                 With2(BigShl(q2, d - 1) # v.m, BigShr(q2, 1), LAMBDA sticky, q :
                 With(IF BigIsOdd(q2) /\ (sticky \/ BigIsOdd(q))
                      THEN BigAdd(q, <<1>>) ELSE q, LAMBDA m :
                    IF BigBitLen(m) > 53
                    THEN Dy(v.s, BigShr(m, 1), v.e + d + 1)
                    ELSE Dy(v.s, m, v.e + d))))))

FInt(n) == FRound(DyInt(n))

FAdd(x, y) == FRound(DyAdd(x, y))

FSub(x, y) == FRound(DySub(x, y))

FMul(x, y) == FRound(DyMul(x, y))

\* x / y for floats, y # 0: the quotient of the significands to 56 or 57
\* bits and a sticky bit for the remainder, then rounded
FDiv(x, y) ==
    With2(x, y, LAMBDA v, w :
        IF v.s = 0 THEN DyZero
        ELSE With(BigDivMod(BigShl(v.m, 56), w.m), LAMBDA qr :
                FRound(Dy(v.s * w.s,
                          BigAdd(BigMulSmall(qr[1], 2),
                                 IF qr[2] = <<>> THEN <<>> ELSE <<1>>),
                          v.e - w.e - 57))))

\* the float a decimal literal n / 10^k denotes (n an int, 0 <= k <= 9)
FDec(n, k) == FDiv(FInt(n), FInt(10^k))

\* x as Python's float.hex() prints it, e.g. "0x1.68f5c28f5c28fp+0" for 1.41
HexDigit == <<"0", "1", "2", "3", "4", "5", "6", "7",
              "8", "9", "a", "b", "c", "d", "e", "f">>

RECURSIVE HexDigits(_, _)
HexDigits(m, n) ==
    IF n = 0 THEN ""
    ELSE HexDigits(BigShr(m, 4), n - 1) \o HexDigit[(Limb(m, 1) % 16) + 1]

FHex(x) ==
    IF x.s = 0 THEN "0x0.0p+0"
    ELSE (IF x.s < 0 THEN "-" ELSE "") \o "0x1." \o HexDigits(x.m, 13)
            \o "p" \o (IF x.e + 52 >= 0 THEN "+" ELSE "") \o ToString(x.e + 52)

(***************************************************************************)
(* Python values.  None is the empty sequence and a float x is <<x>> where *)
(* a value may be None (the two break-even entries of the result).  An int *)
(* operand of "/" is converted to float first (Python's true division).    *)
(***************************************************************************)
None == <<>>

Some(x) == <<x>>

\* what a call did: it returned value, or it raised exc at a line of app.py
Returned(value) == [exc |-> "", line |-> 0, value |-> value]

Raised(exc, line) == [exc |-> exc, line |-> line, value |-> <<>>]

\* the keys of the dict forex_simulation returns
KeyDirect == "Foreign via Direct (India)"
KeyViaUsd == "Foreign via USD abroad"
KeyBreakEvenInr == "Break-even INR/Foreign"
KeyBreakEvenUsd == "Break-even USD/Foreign"

(***************************************************************************)
(* forex_simulation(budget_inr, inr_to_foreign_direct, inr_to_usd,         *)
(* usd_to_foreign): budget_inr is an int, the three rates are floats.      *)
(***************************************************************************)
break_even_inr_to_foreign(budget_inr, foreign_via_usd) ==
    IF DyGt(foreign_via_usd, DyZero)
    THEN Some(FDiv(FInt(budget_inr), foreign_via_usd))
    ELSE None

\* the quotient taken the other way round: a variant the agreement of the
\* two break-even rates must tell from break_even_usd_to_foreign
break_even_usd_to_foreign_inverted(inr_to_usd, inr_to_foreign_direct) ==
    IF DyGt(inr_to_foreign_direct, DyZero)
    THEN Some(FDiv(inr_to_foreign_direct, inr_to_usd))
    ELSE None

break_even_usd_to_foreign(inr_to_usd, inr_to_foreign_direct) ==
    IF DyGt(inr_to_foreign_direct, DyZero)
    THEN Some(FDiv(inr_to_usd, inr_to_foreign_direct))
    ELSE None

\* forex_simulation with line 16 dividing by the rate: a variant the
\* break-even symmetry must tell from forex_simulation
forex_simulation_dividing(budget_inr, inr_to_foreign_direct, inr_to_usd, usd_to_foreign) ==
    IF inr_to_foreign_direct.s = 0 THEN Raised("ZeroDivisionError", 12)
    ELSE IF inr_to_usd.s = 0 THEN Raised("ZeroDivisionError", 15)
    ELSE IF usd_to_foreign.s = 0 THEN Raised("ZeroDivisionError", 16)
    ELSE With(FDiv(FInt(budget_inr), inr_to_foreign_direct), LAMBDA foreign_direct :
         With(FDiv(FInt(budget_inr), inr_to_usd), LAMBDA usd_amount :
         With(FDiv(usd_amount, usd_to_foreign), LAMBDA foreign_via_usd :
            Returned(
               (KeyDirect :> foreign_direct)
            @@ (KeyViaUsd :> foreign_via_usd)
            @@ (KeyBreakEvenInr :>
                    break_even_inr_to_foreign(budget_inr, foreign_via_usd))
            @@ (KeyBreakEvenUsd :>
                    break_even_usd_to_foreign(inr_to_usd, inr_to_foreign_direct)))
         )))

\* forex_simulation with line 15 converting at the direct rate: a variant
\* the route ordering must tell from forex_simulation
forex_simulation_wrong_leg(budget_inr, inr_to_foreign_direct, inr_to_usd, usd_to_foreign) ==
    IF inr_to_foreign_direct.s = 0 THEN Raised("ZeroDivisionError", 12)
    ELSE IF inr_to_usd.s = 0 THEN Raised("ZeroDivisionError", 15)
    ELSE With(FDiv(FInt(budget_inr), inr_to_foreign_direct), LAMBDA foreign_direct :
         With(FDiv(FInt(budget_inr), inr_to_foreign_direct), LAMBDA usd_amount :
         With(FMul(usd_amount, usd_to_foreign), LAMBDA foreign_via_usd :
            Returned(
               (KeyDirect :> foreign_direct)
            @@ (KeyViaUsd :> foreign_via_usd)
            @@ (KeyBreakEvenInr :>
                    break_even_inr_to_foreign(budget_inr, foreign_via_usd))
            @@ (KeyBreakEvenUsd :>
                    break_even_usd_to_foreign(inr_to_usd, inr_to_foreign_direct)))
         )))

\* forex_simulation with line 22 taking the break-even rate from the two
\* amounts, foreign_direct / usd_amount, which is inr_to_usd /
\* inr_to_foreign_direct before rounding: a variant the budget invariance
\* must tell from forex_simulation
forex_simulation_from_amounts(budget_inr, inr_to_foreign_direct, inr_to_usd, usd_to_foreign) ==
    IF inr_to_foreign_direct.s = 0 THEN Raised("ZeroDivisionError", 12)
    ELSE IF inr_to_usd.s = 0 THEN Raised("ZeroDivisionError", 15)
    ELSE With(FDiv(FInt(budget_inr), inr_to_foreign_direct), LAMBDA foreign_direct :
         With(FDiv(FInt(budget_inr), inr_to_usd), LAMBDA usd_amount :
         With(FMul(usd_amount, usd_to_foreign), LAMBDA foreign_via_usd :
            Returned(
               (KeyDirect :> foreign_direct)
            @@ (KeyViaUsd :> foreign_via_usd)
            @@ (KeyBreakEvenInr :>
                    break_even_inr_to_foreign(budget_inr, foreign_via_usd))
            @@ (KeyBreakEvenUsd :>
                    IF DyGt(inr_to_foreign_direct, DyZero) /\ usd_amount.s # 0
                    THEN Some(FDiv(foreign_direct, usd_amount))
                    ELSE None))
         )))

forex_simulation(budget_inr, inr_to_foreign_direct, inr_to_usd, usd_to_foreign) ==
    IF inr_to_foreign_direct.s = 0 THEN Raised("ZeroDivisionError", 12)
    ELSE IF inr_to_usd.s = 0 THEN Raised("ZeroDivisionError", 15)
    ELSE With(FDiv(FInt(budget_inr), inr_to_foreign_direct), LAMBDA foreign_direct :
         With(FDiv(FInt(budget_inr), inr_to_usd), LAMBDA usd_amount :
         With(FMul(usd_amount, usd_to_foreign), LAMBDA foreign_via_usd :
            Returned(
               (KeyDirect :> foreign_direct)
            @@ (KeyViaUsd :> foreign_via_usd)
            @@ (KeyBreakEvenInr :>
                    break_even_inr_to_foreign(budget_inr, foreign_via_usd))
            @@ (KeyBreakEvenUsd :>
                    break_even_usd_to_foreign(inr_to_usd, inr_to_foreign_direct)))
         )))

(***************************************************************************)
(* np.linspace(start, stop, num) for floats start, stop and num > 1, as    *)
(* numpy computes it: step = (stop - start) / (num - 1), the samples       *)
(* arange(num) * step + start, and the last sample set to stop.  When      *)
(* step is 0 the samples are arange(num) / (num - 1) * (stop - start)      *)
(* + start instead.                                                        *)
(***************************************************************************)
NumSamples == 100

\* the samples without the end point, num steps of (stop - start) / num:
\* a variant the sample bounds must tell from linspace
linspace_open(start, stop, num) ==
    With(FSub(stop, start), LAMBDA delta :
    With(FDiv(delta, FInt(num)), LAMBDA step :
        [k \in 1..num |->
            FAdd(IF step.s = 0
                 THEN FMul(FDiv(FInt(k - 1), FInt(num)), delta)
                 ELSE FMul(FInt(k - 1), step),
                 start)]))

\* the samples stepped from start while below stop, none when start = stop:
\* a variant the degenerate range must tell from linspace
linspace_stepping(start, stop, num) ==
    IF ~DyLt(start, stop) THEN <<>>
    ELSE With(FDiv(FSub(stop, start), FInt(num - 1)), LAMBDA step :
            [k \in 1..(num - 1) |-> FAdd(FMul(FInt(k - 1), step), start)])

linspace(start, stop, num) ==
    With(FSub(stop, start), LAMBDA delta :
    With(FDiv(delta, FInt(num - 1)), LAMBDA step :
        [k \in 1..num |->
            IF k = num THEN stop
            ELSE FAdd(IF step.s = 0
                      THEN FMul(FDiv(FInt(k - 1), FInt(num - 1)), delta)
                      ELSE FMul(FInt(k - 1), step),
                      start)]))

\* the first element whatever the second is: a variant the reversed range
\* must tell from PyMin
PyFirst(t) == t[1]

\* Python's min and max of a 2-tuple: the first element unless the second
\* is strictly smaller (greater)
PyMin(t) == IF DyLt(t[2], t[1]) THEN t[2] ELSE t[1]

PyMax(t) == IF DyGt(t[2], t[1]) THEN t[2] ELSE t[1]

(***************************************************************************)
(* plot_forex_graph(budget_inr, inr_to_foreign_direct, inr_to_usd,         *)
(* usd_to_foreign_range).  What it returns is None; what it does is draw   *)
(* the figure, and the value here is the data of that figure: the          *)
(* horizontal line (axhline), the curve (plot) and the vertical line       *)
(* (axvline).  The legend's formatted labels are not modelled.             *)
(***************************************************************************)
\* plot_forex_graph with line 40 converting at the direct rate: a variant
\* the linearity of the curve must tell from plot_forex_graph
plot_forex_graph_wrong_leg(budget_inr, inr_to_foreign_direct, inr_to_usd, usd_to_foreign_range) ==
    With(linspace(PyMin(usd_to_foreign_range), PyMax(usd_to_foreign_range),
                  NumSamples), LAMBDA usd_rates :
        IF inr_to_foreign_direct.s = 0 THEN Raised("ZeroDivisionError", 37)
        ELSE IF inr_to_usd.s = 0 THEN Raised("ZeroDivisionError", 40)
        ELSE With(FDiv(FInt(budget_inr), inr_to_foreign_direct), LAMBDA usd_amount :
                Returned([axhline   |-> FDiv(FInt(budget_inr), inr_to_foreign_direct),
                          usd_rates |-> usd_rates,
                          foreign_via_usd |-> [k \in 1..Len(usd_rates) |->
                                                  FMul(usd_amount, usd_rates[k])],
                          axvline   |-> FDiv(inr_to_usd, inr_to_foreign_direct)])))

plot_forex_graph(budget_inr, inr_to_foreign_direct, inr_to_usd, usd_to_foreign_range) ==
    With(linspace(PyMin(usd_to_foreign_range), PyMax(usd_to_foreign_range),
                  NumSamples), LAMBDA usd_rates :
        IF inr_to_foreign_direct.s = 0 THEN Raised("ZeroDivisionError", 37)
        ELSE IF inr_to_usd.s = 0 THEN Raised("ZeroDivisionError", 40)
        ELSE With(FDiv(FInt(budget_inr), inr_to_usd), LAMBDA usd_amount :
                Returned([axhline   |-> FDiv(FInt(budget_inr), inr_to_foreign_direct),
                          usd_rates |-> usd_rates,
                          foreign_via_usd |-> [k \in 1..Len(usd_rates) |->
                                                  FMul(usd_amount, usd_rates[k])],
                          axvline   |-> FDiv(inr_to_usd, inr_to_foreign_direct)])))

(***************************************************************************)
(* The state.  The five inputs are the values of the page's number_input   *)
(* widgets (app.py lines 68-72); the harness specifications below use the  *)
(* same variables, and usd_to_foreign, for the arguments of direct calls.  *)
(* calls is the trace of the calls of forex_simulation and                 *)
(* plot_forex_graph made so far (by the latest run of the script, in the   *)
(* page's specification), each with its arguments and what it did.  In    *)
(* the page's specification the five inputs and clicked are what the       *)
(* latest interaction asked of the page, and outcome is how the run of the *)
(* script it started ended.                                                *)
(***************************************************************************)
VARIABLES
    budget,                 \* int
    inr_to_foreign_direct,  \* float
    inr_to_usd,             \* float
    usd_to_foreign_min,     \* float
    usd_to_foreign_max,     \* float
    usd_to_foreign,         \* float: the rate argument of a direct call
    clicked,                \* the latest interaction was a click on "Run Simulation"
    outcome,                \* how the latest run of the script ended
    calls,                  \* the calls made, in order
    probe                   \* two sample indexes an observer of the chart picked

vars == <<budget, inr_to_foreign_direct, inr_to_usd, usd_to_foreign_min,
          usd_to_foreign_max, usd_to_foreign, clicked, outcome, calls,
          probe>>

inputs == <<budget, inr_to_foreign_direct, inr_to_usd, usd_to_foreign_min,
            usd_to_foreign_max>>

Call(fn, args, out) == [fn |-> fn, args |-> args, out |-> out]

CallCompare(b, d, h, r) ==
    Call("forex_simulation", <<b, d, h, r>>, forex_simulation(b, d, h, r))

CallPlot(b, d, h, range) ==
    Call("plot_forex_graph", <<b, d, h, range>>, plot_forex_graph(b, d, h, range))

(***************************************************************************)
(* Python compiles app.py as a whole before it runs any statement of it,   *)
(* on the first run of the page and on every rerun.  Line 92, the caption  *)
(* under the page, opens a string literal that the line does not close     *)
(* (its third double quote), so compiling the file as committed raises     *)
(* SyntaxError at line 92.                                                 *)
(***************************************************************************)
Compile == Raised("SyntaxError", 92)

(***************************************************************************)
(* One run of the script with the interaction asking for the widget values *)
(* b, d, h, mn, mx and for the button click: the calls it makes.  Nothing  *)
(* runs when the file does not compile: no widget is created and no call   *)
(* is made.  Past that, lines 77-89 call forex_simulation at the midpoint  *)
(* of the range and then plot_forex_graph, under the button only, and an   *)
(* exception ends the run where it is raised.                              *)
(***************************************************************************)
mid_usd_rate(mn, mx) == FDiv(FAdd(mn, mx), FInt(2))

Script(click, b, d, h, mn, mx) ==
    IF Compile.exc # "" THEN <<>>
    ELSE IF ~click THEN <<>>
    ELSE With(CallCompare(b, d, h, mid_usd_rate(mn, mx)), LAMBDA first :
            IF first.out.exc # "" THEN <<first>>
            ELSE <<first, CallPlot(b, d, h, <<mn, mx>>)>>)

\* how a run that made the calls cs ended: the exception that stopped it,
\* or None, the value of a script that ran to its end
ScriptOutcome(cs) ==
    IF Compile.exc # "" THEN Compile
    ELSE IF cs # <<>> /\ cs[Len(cs)].out.exc # "" THEN cs[Len(cs)].out
    ELSE Returned(None)

(***************************************************************************)
(* The values the model enters in the widgets: each at or above the        *)
(* widget's min_value, the defaults among them.                            *)
(***************************************************************************)
MaxBudgetK == 1
MaxDirectK == 1
MaxInrUsdK == 1
MaxRangeK == 2

DefaultBudget == 100000

WidgetBudgets == {DefaultBudget} \cup {1000 * k : k \in 1..MaxBudgetK}
WidgetDirect  == {FDec(141 + k, 2) : k \in 0..MaxDirectK}
WidgetInrUsd  == {FDec(891 + k, 1) : k \in 0..MaxInrUsdK}
WidgetRange   == {FDec(600 + 125 * k, 1) : k \in 0..MaxRangeK}

Init ==
    /\ budget = DefaultBudget
    /\ inr_to_foreign_direct = FDec(141, 2)
    /\ inr_to_usd = FDec(891, 1)
    /\ usd_to_foreign_min = FDec(600, 1)
    /\ usd_to_foreign_max = FDec(850, 1)
    /\ usd_to_foreign = mid_usd_rate(usd_to_foreign_min, usd_to_foreign_max)
    /\ clicked = FALSE
    /\ outcome = ScriptOutcome(<<>>)
    /\ calls = <<>>
    /\ probe = <<>>

\* every interaction starts a run of the script, from its compilation on
Rerun(click) ==
    /\ clicked' = click
    /\ calls' = Script(click, budget', inr_to_foreign_direct', inr_to_usd',
                       usd_to_foreign_min', usd_to_foreign_max')
    /\ outcome' = ScriptOutcome(calls')
    /\ UNCHANGED <<usd_to_foreign, probe>>

SetBudget ==
    \E v \in WidgetBudgets \ {budget} :
        /\ budget' = v
        /\ UNCHANGED <<inr_to_foreign_direct, inr_to_usd, usd_to_foreign_min,
                       usd_to_foreign_max>>
        /\ Rerun(FALSE)

SetDirect ==
    \E v \in WidgetDirect \ {inr_to_foreign_direct} :
        /\ inr_to_foreign_direct' = v
        /\ UNCHANGED <<budget, inr_to_usd, usd_to_foreign_min, usd_to_foreign_max>>
        /\ Rerun(FALSE)

SetInrUsd ==
    \E v \in WidgetInrUsd \ {inr_to_usd} :
        /\ inr_to_usd' = v
        /\ UNCHANGED <<budget, inr_to_foreign_direct, usd_to_foreign_min,
                       usd_to_foreign_max>>
        /\ Rerun(FALSE)

SetMin ==
    \E v \in WidgetRange \ {usd_to_foreign_min} :
        /\ usd_to_foreign_min' = v
        /\ UNCHANGED <<budget, inr_to_foreign_direct, inr_to_usd, usd_to_foreign_max>>
        /\ Rerun(FALSE)

SetMax ==
    \E v \in WidgetRange \ {usd_to_foreign_max} :
        /\ usd_to_foreign_max' = v
        /\ UNCHANGED <<budget, inr_to_foreign_direct, inr_to_usd, usd_to_foreign_min>>
        /\ Rerun(FALSE)

RunSimulation ==
    /\ UNCHANGED inputs
    /\ Rerun(TRUE)

Next ==
    \/ SetBudget
    \/ SetDirect
    \/ SetInrUsd
    \/ SetMin
    \/ SetMax
    \/ RunSimulation

Spec == Init /\ [][Next]_vars


(***************************************************************************)
(* Direct calls of the two functions, for the properties of the functions  *)
(* themselves, their definitions (lines 9-59) taken on their own, as the   *)
(* file they stand in does not compile: the arguments are drawn from sets  *)
(* that also hold values the                                               *)
(* widgets refuse (a zero budget, zero and negative rates), and the trace  *)
(* calls records each call.  A call already in the trace is not repeated   *)
(* (both functions are pure), and MaxCalls bounds the trace.               *)
(***************************************************************************)
MaxCalls == 2

CallBudgets == {DefaultBudget} \cup {1000 * k : k \in 0..MaxBudgetK}
CallDirect  == {FInt(0)} \cup WidgetDirect
CallInrUsd  == {FInt(0)} \cup WidgetInrUsd
CallRates   == {FDec(-725, 1), FInt(0)} \cup WidgetRange

IsCompare(c) == c.fn = "forex_simulation"
IsPlot(c) == c.fn = "plot_forex_graph"
HasReturned(c) == c.out.exc = ""

Made(fn, args) == \E i \in 1..Len(calls) : calls[i].fn = fn /\ calls[i].args = args

MayCall(fn, args) == Len(calls) < MaxCalls /\ ~Made(fn, args)

\* forex_simulation with the arguments of the state
Compare ==
    /\ MayCall("forex_simulation",
               <<budget, inr_to_foreign_direct, inr_to_usd, usd_to_foreign>>)
    /\ calls' = Append(calls, CallCompare(budget, inr_to_foreign_direct,
                                          inr_to_usd, usd_to_foreign))
    /\ UNCHANGED <<inputs, usd_to_foreign, clicked, outcome, probe>>

\* forex_simulation with another budget and the same three rates
CompareWithBudget ==
    \E b \in CallBudgets \ {budget} :
        /\ MayCall("forex_simulation",
                   <<b, inr_to_foreign_direct, inr_to_usd, usd_to_foreign>>)
        /\ calls' = Append(calls, CallCompare(b, inr_to_foreign_direct,
                                              inr_to_usd, usd_to_foreign))
        /\ UNCHANGED <<inputs, usd_to_foreign, clicked, outcome, probe>>

\* forex_simulation again, its rate argument now the "Break-even USD/Foreign"
\* value the latest call returned
CompareAtBreakEven ==
    /\ calls # <<>>
    /\ LET last == calls[Len(calls)]
       IN  /\ IsCompare(last)
           /\ HasReturned(last)
           /\ last.out.value[KeyBreakEvenUsd] # None
           /\ MayCall("forex_simulation",
                      <<last.args[1], last.args[2], last.args[3],
                        last.out.value[KeyBreakEvenUsd][1]>>)
           /\ calls' = Append(calls,
                          CallCompare(last.args[1], last.args[2], last.args[3],
                                      last.out.value[KeyBreakEvenUsd][1]))
    /\ UNCHANGED <<inputs, usd_to_foreign, clicked, outcome, probe>>

\* plot_forex_graph with the arguments of the state
Plot ==
    /\ MayCall("plot_forex_graph",
               <<budget, inr_to_foreign_direct, inr_to_usd,
                 <<usd_to_foreign_min, usd_to_foreign_max>>>>)
    /\ calls' = Append(calls, CallPlot(budget, inr_to_foreign_direct, inr_to_usd,
                                       <<usd_to_foreign_min, usd_to_foreign_max>>))
    /\ UNCHANGED <<inputs, usd_to_foreign, clicked, outcome, probe>>

\* someone reading the chart picks two of its samples
PickSamples ==
    /\ probe = <<>>
    /\ calls # <<>>
    /\ IsPlot(calls[Len(calls)])
    /\ HasReturned(calls[Len(calls)])
    /\ \E i \in 1..NumSamples, j \in 1..NumSamples :
        /\ i < j
        /\ probe' = <<i, j>>
    /\ UNCHANGED <<inputs, usd_to_foreign, clicked, outcome, calls>>

InitCompare ==
    /\ budget \in CallBudgets
    /\ inr_to_foreign_direct \in CallDirect
    /\ inr_to_usd \in CallInrUsd
    /\ usd_to_foreign \in CallRates
    /\ usd_to_foreign_min = usd_to_foreign
    /\ usd_to_foreign_max = usd_to_foreign
    /\ clicked = FALSE
    /\ outcome = None
    /\ calls = <<>>
    /\ probe = <<>>

NextCompare ==
    \/ Compare
    \/ CompareWithBudget
    \/ CompareAtBreakEven

SpecCompare == InitCompare /\ [][NextCompare]_vars

InitPlot ==
    /\ budget \in {0, DefaultBudget}
    /\ inr_to_foreign_direct = FDec(141, 2)
    /\ inr_to_usd \in WidgetInrUsd
    /\ usd_to_foreign_min \in WidgetRange
    /\ usd_to_foreign_max \in WidgetRange
    /\ usd_to_foreign = mid_usd_rate(usd_to_foreign_min, usd_to_foreign_max)
    /\ clicked = FALSE
    /\ outcome = None
    /\ calls = <<>>
    /\ probe = <<>>

\* SpecPlot calls each of the two functions once, in either order
NotYetCalled(fn) == \A i \in 1..Len(calls) : calls[i].fn # fn

PlotOnce == NotYetCalled("plot_forex_graph") /\ Plot

CompareOnce == NotYetCalled("forex_simulation") /\ Compare

CompareOnceWithBudget == NotYetCalled("forex_simulation") /\ CompareWithBudget

NextPlot ==
    \/ PlotOnce
    \/ CompareOnce
    \/ CompareOnceWithBudget

SpecPlot == InitPlot /\ [][NextPlot]_vars

InitLinearity ==
    /\ budget = DefaultBudget
    /\ inr_to_foreign_direct = FDec(141, 2)
    /\ inr_to_usd \in WidgetInrUsd
    /\ usd_to_foreign_min = FDec(600, 1)
    /\ usd_to_foreign_max \in WidgetRange
    /\ usd_to_foreign = mid_usd_rate(usd_to_foreign_min, usd_to_foreign_max)
    /\ clicked = FALSE
    /\ outcome = None
    /\ calls = <<>>
    /\ probe = <<>>

NextLinearity ==
    \/ Plot
    \/ PickSamples

SpecLinearity == InitLinearity /\ [][NextLinearity]_vars

(***************************************************************************)
(* What the properties read off a call.                                    *)
(***************************************************************************)
ArgBudget(c) == c.args[1]
ArgDirect(c) == c.args[2]
ArgInrUsd(c) == c.args[3]
ArgRate(c)   == c.args[4]
ArgRange(c)  == c.args[4]

PositiveArgs(c) ==
    /\ ArgBudget(c) > 0
    /\ ArgDirect(c).s = 1
    /\ ArgInrUsd(c).s = 1

DyMax(x, y) == IF DyGt(y, x) THEN y ELSE x

\* |x - y| <= 1e-9 * max(|x|, |y|): equal within the relative tolerance 1e-9
Within1e9(x, y) ==
    DyLe(DyMul(DyAbs(DySub(x, y)), DyInt(1000000000)), DyMax(DyAbs(x), DyAbs(y)))

\* |x - y| > 1e-9 * |y|: x is not within the relative tolerance 1e-9 of y
Beyond1e9(x, y) ==
    DyGt(DyMul(DyAbs(DySub(x, y)), DyInt(1000000000)), DyAbs(y))


Value(c, key) == c.out.value[key]

\* the rate argument is the "Break-even USD/Foreign" value the call reports
AtBreakEven(c) ==
    /\ HasReturned(c)
    /\ Value(c, KeyBreakEvenUsd) = Some(ArgRate(c))

(***************************************************************************)
(* C2  Break-even symmetry: every call of forex_simulation with a positive *)
(* budget, direct rate and INR/USD rate whose USD/foreign rate is the      *)
(* break-even rate it reports returns, and its two yields are equal within *)
(* the relative tolerance 1e-9.                                            *)
(***************************************************************************)
BreakEvenSymmetry ==
    \A i \in 1..Len(calls) :
        (IsCompare(calls[i]) /\ PositiveArgs(calls[i]) /\ AtBreakEven(calls[i]))
            => Within1e9(Value(calls[i], KeyDirect), Value(calls[i], KeyViaUsd))

\* a call at its own break-even rate whose two yields differ in the last bits
BreakEvenSymmetryWitness ==
    \E i \in 1..Len(calls) :
        /\ IsCompare(calls[i])
        /\ PositiveArgs(calls[i])
        /\ AtBreakEven(calls[i])
        /\ Value(calls[i], KeyDirect) # Value(calls[i], KeyViaUsd)

\* the indirect yield budget / inr_to_usd * usd_to_foreign exists and is <= 0
NonPositiveYield(c) ==
    /\ ArgBudget(c) >= 0
    /\ ArgInrUsd(c).s = 1
    /\ (ArgBudget(c) = 0 \/ ArgRate(c).s <= 0)

(***************************************************************************)
(* C3  Undefined break-even: every call of forex_simulation whose inputs   *)
(* make the indirect yield <= 0 returns, with "Break-even INR/Foreign"     *)
(* None and the other three fields present.                                *)
(***************************************************************************)
UndefinedBreakEven ==
    \A i \in 1..Len(calls) :
        (IsCompare(calls[i]) /\ NonPositiveYield(calls[i])) =>
            /\ HasReturned(calls[i])
            /\ DOMAIN calls[i].out.value =
                   {KeyDirect, KeyViaUsd, KeyBreakEvenInr, KeyBreakEvenUsd}
            /\ Value(calls[i], KeyBreakEvenInr) = None
            /\ Value(calls[i], KeyBreakEvenUsd) # None

\* the same, for the calls whose direct rate is not zero
UndefinedBreakEvenDirectNonzero ==
    \A i \in 1..Len(calls) :
        (IsCompare(calls[i]) /\ NonPositiveYield(calls[i])
            /\ ArgDirect(calls[i]).s # 0) =>
            /\ HasReturned(calls[i])
            /\ DOMAIN calls[i].out.value =
                   {KeyDirect, KeyViaUsd, KeyBreakEvenInr, KeyBreakEvenUsd}
            /\ Value(calls[i], KeyBreakEvenInr) = None
            /\ Value(calls[i], KeyBreakEvenUsd) # None

(***************************************************************************)
(* C5  Budget invariance: two calls of forex_simulation with positive      *)
(* budgets and the same three rates, the rates positive, both return, and  *)
(* report the same "Break-even USD/Foreign" value.                         *)
(***************************************************************************)
BudgetInvariance ==
    \A i \in 1..Len(calls), j \in 1..Len(calls) :
        (/\ IsCompare(calls[i]) /\ PositiveArgs(calls[i])
         /\ IsCompare(calls[j]) /\ PositiveArgs(calls[j])
         /\ ArgDirect(calls[i]) = ArgDirect(calls[j])
         /\ ArgInrUsd(calls[i]) = ArgInrUsd(calls[j])
         /\ ArgRate(calls[i]) = ArgRate(calls[j])) =>
            /\ HasReturned(calls[i])
            /\ HasReturned(calls[j])
            /\ Value(calls[i], KeyBreakEvenUsd) = Value(calls[j], KeyBreakEvenUsd)

\* two calls that differ in the budget only, and whose yields differ
BudgetInvarianceWitness ==
    \E i \in 1..Len(calls), j \in 1..Len(calls) :
        /\ IsCompare(calls[i]) /\ PositiveArgs(calls[i])
        /\ IsCompare(calls[j]) /\ PositiveArgs(calls[j])
        /\ ArgBudget(calls[i]) # ArgBudget(calls[j])
        /\ Tail(calls[i].args) = Tail(calls[j].args)
        /\ HasReturned(calls[i]) /\ HasReturned(calls[j])
        /\ Value(calls[i], KeyDirect) # Value(calls[j], KeyDirect)
        /\ Value(calls[i], KeyBreakEvenUsd) # None

ViaUsdAbove(c) == DyGt(Value(c, KeyViaUsd), Value(c, KeyDirect))
ViaUsdBelow(c) == DyLt(Value(c, KeyViaUsd), Value(c, KeyDirect))
RateAbove(c) == DyGt(ArgRate(c), Value(c, KeyBreakEvenUsd)[1])
RateBelow(c) == DyLt(ArgRate(c), Value(c, KeyBreakEvenUsd)[1])
BreakEvenInrBelowDirect(c) ==
    /\ Value(c, KeyBreakEvenInr) # None
    /\ DyLt(Value(c, KeyBreakEvenInr)[1], ArgDirect(c))

RouteOrder(c) ==
    /\ ViaUsdAbove(c) <=> RateAbove(c)
    /\ ViaUsdBelow(c) <=> RateBelow(c)
    /\ BreakEvenInrBelowDirect(c) <=> ViaUsdAbove(c)

(***************************************************************************)
(* C10  Route ordering about the break-even, as the claim states it: for   *)
(* every call of forex_simulation with positive budget, direct rate and    *)
(* INR/USD rate, the yield via USD is above the direct yield exactly when  *)
(* the rate is above the reported break-even rate, below exactly when the  *)
(* rate is below it, and "Break-even INR/Foreign" is below the direct rate *)
(* exactly when the yield via USD is above the direct yield.               *)
(***************************************************************************)
RouteOrdering ==
    \A i \in 1..Len(calls) :
        (IsCompare(calls[i]) /\ PositiveArgs(calls[i])) =>
            /\ HasReturned(calls[i])
            /\ RouteOrder(calls[i])

(***************************************************************************)
(* C10  Route ordering about the break-even, amended: the same, for the    *)
(* calls whose rate is further than the relative tolerance 1e-9 from the   *)
(* reported break-even rate.                                               *)
(***************************************************************************)
RouteOrderingBeyondTolerance ==
    \A i \in 1..Len(calls) :
        (IsCompare(calls[i]) /\ PositiveArgs(calls[i])) =>
            /\ HasReturned(calls[i])
            /\ Beyond1e9(ArgRate(calls[i]), Value(calls[i], KeyBreakEvenUsd)[1])
                   => RouteOrder(calls[i])

\* a call with the rate beyond the tolerance above the reported break-even
\* rate, and the yield via USD above the direct yield
RouteOrderingWitness ==
    \E i \in 1..Len(calls) :
        /\ IsCompare(calls[i]) /\ PositiveArgs(calls[i]) /\ HasReturned(calls[i])
        /\ Beyond1e9(ArgRate(calls[i]), Value(calls[i], KeyBreakEvenUsd)[1])
        /\ RateAbove(calls[i])
        /\ ViaUsdAbove(calls[i])
        /\ BreakEvenInrBelowDirect(calls[i])

PositiveRates(c) ==
    /\ ArgDirect(c).s = 1
    /\ ArgInrUsd(c).s = 1

RangeMin(c) == ArgRange(c)[1]
RangeMax(c) == ArgRange(c)[2]

Reversed(c) == DyGt(RangeMin(c), RangeMax(c))

Samples(c) == c.out.value.usd_rates
Yields(c) == c.out.value.foreign_via_usd

(***************************************************************************)
(* C1  Invalid input rejection, as the claim states it: every call of      *)
(* forex_simulation with budget 0 and every call of plot_forex_graph with  *)
(* a reversed range ends in InvalidInput, with no value computed.          *)
(***************************************************************************)
InvalidInputRejected ==
    \A i \in 1..Len(calls) :
        (\/ IsCompare(calls[i]) /\ ArgBudget(calls[i]) = 0
         \/ IsPlot(calls[i]) /\ Reversed(calls[i])) =>
            /\ calls[i].out.exc = "InvalidInput"
            /\ calls[i].out.value = <<>>

(***************************************************************************)
(* C1  Invalid input rejection, amended: nothing is rejected.  A call of   *)
(* forex_simulation with budget 0 and positive rates returns, both yields  *)
(* 0, "Break-even INR/Foreign" None and "Break-even USD/Foreign" a number; *)
(* a call of plot_forex_graph with a reversed range and positive direct    *)
(* and INR/USD rates returns, its 100 samples running from the smaller     *)
(* bound of the range to the larger.                                       *)
(***************************************************************************)
InvalidInputComputed ==
    \A i \in 1..Len(calls) :
        /\ (IsCompare(calls[i]) /\ ArgBudget(calls[i]) = 0
               /\ PositiveRates(calls[i]) /\ ArgRate(calls[i]).s = 1) =>
                /\ HasReturned(calls[i])
                /\ Value(calls[i], KeyDirect) = FInt(0)
                /\ Value(calls[i], KeyViaUsd) = FInt(0)
                /\ Value(calls[i], KeyBreakEvenInr) = None
                /\ Value(calls[i], KeyBreakEvenUsd) # None
        /\ (IsPlot(calls[i]) /\ Reversed(calls[i]) /\ PositiveRates(calls[i])) =>
                /\ HasReturned(calls[i])
                /\ Len(Samples(calls[i])) = NumSamples
                /\ Len(Yields(calls[i])) = NumSamples
                /\ Samples(calls[i])[1] = RangeMax(calls[i])
                /\ Samples(calls[i])[NumSamples] = RangeMin(calls[i])

\* forex_simulation was called with budget 0 and plot_forex_graph with a
\* reversed range, and both returned
InvalidInputWitness ==
    \E i \in 1..Len(calls), j \in 1..Len(calls) :
        /\ IsCompare(calls[i]) /\ ArgBudget(calls[i]) = 0
        /\ PositiveRates(calls[i]) /\ ArgRate(calls[i]).s = 1
        /\ HasReturned(calls[i])
        /\ IsPlot(calls[j]) /\ Reversed(calls[j]) /\ PositiveRates(calls[j])
        /\ HasReturned(calls[j])

\* sample k is within 1e-9 * max of min + (k - 1) * (max - min) / 99, the
\* test multiplied through by 99
EvenlySpaced(c, k) ==
    DyLe(DyMul(DyAbs(DySub(DyMul(DyInt(NumSamples - 1), Samples(c)[k]),
                           DyAdd(DyMul(DyInt(NumSamples - 1), RangeMin(c)),
                                 DyMul(DyInt(k - 1),
                                       DySub(RangeMax(c), RangeMin(c)))))),
               DyInt(1000000000)),
         DyMul(DyInt(NumSamples - 1), RangeMax(c)))

(***************************************************************************)
(* C4  Sample count and bounds: every call of plot_forex_graph with a      *)
(* range 0 < min <= max (and positive direct and INR/USD rates) returns,   *)
(* with exactly 100 sampled rates, the first min and the last max, in      *)
(* non-decreasing order, each sample k within the relative tolerance 1e-9  *)
(* of min + (k - 1) * (max - min) / 99.                                    *)
(***************************************************************************)
SampleCountAndBounds ==
    \A i \in 1..Len(calls) :
        (IsPlot(calls[i]) /\ PositiveRates(calls[i])
            /\ RangeMin(calls[i]).s = 1 /\ ~Reversed(calls[i])) =>
            /\ HasReturned(calls[i])
            /\ Len(Samples(calls[i])) = NumSamples
            /\ Samples(calls[i])[1] = RangeMin(calls[i])
            /\ Samples(calls[i])[NumSamples] = RangeMax(calls[i])
            /\ \A k \in 1..(NumSamples - 1) :
                   DyLe(Samples(calls[i])[k], Samples(calls[i])[k + 1])
            /\ \A k \in 1..NumSamples : EvenlySpaced(calls[i], k)

\* a call with min < max, whose samples are not all the same
SampleCountAndBoundsWitness ==
    \E i \in 1..Len(calls) :
        /\ IsPlot(calls[i]) /\ PositiveRates(calls[i])
        /\ RangeMin(calls[i]).s = 1
        /\ DyLt(RangeMin(calls[i]), RangeMax(calls[i]))
        /\ HasReturned(calls[i])
        /\ DyLt(Samples(calls[i])[1], Samples(calls[i])[2])

(***************************************************************************)
(* C7  Degenerate range: every call of plot_forex_graph with min = max,    *)
(* positive (and positive direct and INR/USD rates), returns, with 100     *)
(* sampled rates all equal to min and 100 yields all the same.             *)
(***************************************************************************)
DegenerateRange ==
    \A i \in 1..Len(calls) :
        (IsPlot(calls[i]) /\ PositiveRates(calls[i])
            /\ RangeMin(calls[i]).s = 1
            /\ RangeMin(calls[i]) = RangeMax(calls[i])) =>
            /\ HasReturned(calls[i])
            /\ Len(Samples(calls[i])) = NumSamples
            /\ Len(Yields(calls[i])) = NumSamples
            /\ \A k \in 1..NumSamples :
                /\ Samples(calls[i])[k] = RangeMin(calls[i])
                /\ Yields(calls[i])[k] = Yields(calls[i])[1]

\* a call with min = max and a positive budget
DegenerateRangeWitness ==
    \E i \in 1..Len(calls) :
        /\ IsPlot(calls[i]) /\ PositiveArgs(calls[i])
        /\ RangeMin(calls[i]).s = 1
        /\ RangeMin(calls[i]) = RangeMax(calls[i])
        /\ HasReturned(calls[i])
        /\ Yields(calls[i])[NumSamples].s = 1

(***************************************************************************)
(* C8  Break-even agreement: a call of forex_simulation and a call of      *)
(* plot_forex_graph with the same positive direct and INR/USD rates both   *)
(* return, and the vertical line of the chart is at the "Break-even        *)
(* USD/Foreign" value of the result, whatever the budgets and the range.   *)
(***************************************************************************)
BreakEvenAgreement ==
    \A i \in 1..Len(calls), j \in 1..Len(calls) :
        (/\ IsCompare(calls[i]) /\ PositiveRates(calls[i])
         /\ IsPlot(calls[j])
         /\ ArgDirect(calls[j]) = ArgDirect(calls[i])
         /\ ArgInrUsd(calls[j]) = ArgInrUsd(calls[i])) =>
            /\ HasReturned(calls[i])
            /\ HasReturned(calls[j])
            /\ Value(calls[i], KeyBreakEvenUsd) = Some(calls[j].out.value.axvline)

\* the two calls with different budgets, and the vertical line outside the
\* range of the chart
BreakEvenAgreementWitness ==
    \E i \in 1..Len(calls), j \in 1..Len(calls) :
        /\ IsCompare(calls[i]) /\ PositiveRates(calls[i])
        /\ IsPlot(calls[j])
        /\ ArgDirect(calls[j]) = ArgDirect(calls[i])
        /\ ArgInrUsd(calls[j]) = ArgInrUsd(calls[i])
        /\ ArgBudget(calls[j]) # ArgBudget(calls[i])
        /\ HasReturned(calls[i]) /\ HasReturned(calls[j])
        /\ DyLt(calls[j].out.value.axvline, Samples(calls[j])[1])

\* |h * (y2 - y1) - b * (r2 - r1)| * 2^51 <= b * (|r1| + |r2|): the slope
\* (y2 - y1) / (r2 - r1) is b / h within what the roundings of b / h and of
\* the two products can add up to, 2^-51 * (b / h) * (|r1| + |r2|) / |r2 - r1|
SlopeWithinRounding(b, h, r1, y1, r2, y2) ==
    DyLe(DyScale(DyAbs(DySub(DyMul(h, DySub(y2, y1)),
                             DyMul(DyInt(b), DySub(r2, r1)))), 51),
         DyMul(DyInt(b), DyAdd(DyAbs(r1), DyAbs(r2))))

Probed == calls[Len(calls)]

(***************************************************************************)
(* C6  Linearity of the curve: for any two samples of a curve drawn with a *)
(* positive budget and positive rates whose rates r1 and r2 differ, the    *)
(* slope (y2 - y1) / (r2 - r1) of the yields is budget / inr_to_usd        *)
(* within the rounding of the floating-point operations, a relative error  *)
(* of at most 2^-51 * (|r1| + |r2|) / |r2 - r1|.                           *)
(***************************************************************************)
Linearity ==
    (probe # <<>> /\ PositiveArgs(Probed)
        /\ Samples(Probed)[probe[1]] # Samples(Probed)[probe[2]]) =>
        SlopeWithinRounding(ArgBudget(Probed), ArgInrUsd(Probed),
                            Samples(Probed)[probe[1]], Yields(Probed)[probe[1]],
                            Samples(Probed)[probe[2]], Yields(Probed)[probe[2]])

\* two samples next to each other whose slope is not budget / inr_to_usd
\* to the last bit
LinearityWitness ==
    /\ probe # <<>>
    /\ probe[2] = probe[1] + 1
    /\ PositiveArgs(Probed)
    /\ Samples(Probed)[probe[1]] # Samples(Probed)[probe[2]]
    /\ DyMul(ArgInrUsd(Probed),
             DySub(Yields(Probed)[probe[2]], Yields(Probed)[probe[1]]))
         # DyMul(DyInt(ArgBudget(Probed)),
                 DySub(Samples(Probed)[probe[2]], Samples(Probed)[probe[1]]))

(***************************************************************************)
(* C9  Run ordering: after an interaction that clicked the button, exactly *)
(* two calls were made, first forex_simulation with the budget, the direct *)
(* rate and the INR/USD rate entered and the midpoint of the entered range *)
(* (twice the rate is min + max within the relative tolerance 1e-9, and    *)
(* the rate lies between min and max), then plot_forex_graph with the same *)
(* three values and the range (min, max); after an interaction that did    *)
(* not click the button, no call was made.                                 *)
(***************************************************************************)
RunOrdering ==
    /\ ~clicked => calls = <<>>
    /\ clicked =>
        /\ Len(calls) = 2
        /\ IsCompare(calls[1])
        /\ ArgBudget(calls[1]) = budget
        /\ ArgDirect(calls[1]) = inr_to_foreign_direct
        /\ ArgInrUsd(calls[1]) = inr_to_usd
        /\ Within1e9(DyMul(DyInt(2), ArgRate(calls[1])),
                     DyAdd(usd_to_foreign_min, usd_to_foreign_max))
        /\ DyLe(PyMin(<<usd_to_foreign_min, usd_to_foreign_max>>), ArgRate(calls[1]))
        /\ DyLe(ArgRate(calls[1]), PyMax(<<usd_to_foreign_min, usd_to_foreign_max>>))
        /\ HasReturned(calls[1])
        /\ IsPlot(calls[2])
        /\ calls[2].args = <<budget, inr_to_foreign_direct, inr_to_usd,
                             <<usd_to_foreign_min, usd_to_foreign_max>>>>
        /\ HasReturned(calls[2])

\* the half of it that the page as committed keeps: no call without a click
NoCallWithoutClick == ~clicked => calls = <<>>

\* how every run of the page as committed ends
NeverCompiles == outcome = Raised("SyntaxError", 92) /\ calls = <<>>

====
